---- MODULE Spec2Model ----
(***************************************************************************)
(* typedconfig: the recursive, annotation-directed loader of               *)
(* src/src/typedconfig/core.py.                                            *)
(*                                                                         *)
(* Keys, field names and class names are sequences of one-character        *)
(* strings, so that str.replace, str.split and the name-casing helper are  *)
(* computed character by character.  A Python dict is a function from keys *)
(* to values; where the code depends on the iteration order of a dict, the *)
(* order is that of KeyOrder (data) or of the annotation sequences         *)
(* (classes).                                                              *)
(***************************************************************************)
EXTENDS Integers, Sequences, FiniteSets, TLC

VARIABLES pc, inst, call, result, loads

vars == <<pc, inst, call, result, loads>>

(***************************************************************************)
(* Bounds of the model.                                                    *)
(***************************************************************************)
\* nesting depth of the generated documents of the self-referential type
MaxDepth == 2
\* number of load_into calls the caller makes on one existing instance
MaxLoads == 2

(***************************************************************************)
(* Values: what a parsed TOML document, a class default or an instance     *)
(* attribute can hold.                                                     *)
(***************************************************************************)
NoneV == [t |-> "none"]
IntV(n) == [t |-> "int", v |-> n]
StrV(n) == [t |-> "str", v |-> n]
MapV(m) == [t |-> "map", m |-> m]
ListV(l) == [t |-> "list", l |-> l]
InstV(c, d) == [t |-> "inst", cls |-> c, d |-> d]

EmptyDict == <<>>

\* dict | dict (right operand wins), dict.update
Merge(a, b) ==
    [k \in (DOMAIN a) \cup (DOMAIN b) |-> IF k \in DOMAIN b THEN b[k] ELSE a[k]]

\* optional arguments (key: str = None, init: dict = None)
NoArg == [some |-> FALSE, v |-> <<>>]
Arg(x) == [some |-> TRUE, v |-> x]

(***************************************************************************)
(* Outcomes of a call: a returned value or the exception that left it.     *)
(***************************************************************************)
Ok(v) == [kind |-> "ok", val |-> v]
Raise(kind, key) == [kind |-> kind, key |-> key]
NoKey == <<>>

\* the rest of a function after a call: an exception of the call leaves the
\* function, a returned value goes on into Rest
Bind(r, Rest(_)) == IF r.kind # "ok" THEN r ELSE Rest(r.val)

(***************************************************************************)
(* Type descriptors: the annotations a class can carry.                    *)
(***************************************************************************)
TInt == [k |-> "int"]
TStr == [k |-> "str"]
TNone == [k |-> "NoneType"]
TCls(c) == [k |-> "cls", c |-> c]
\* typing.Union[...] and typing.Optional[...]
TUnion(args) == [k |-> "Union", args |-> args]
\* X | Y (types.UnionType)
TUnionType(args) == [k |-> "UnionType", args |-> args]
TOptional(x) == TUnion(<<x, TNone>>)
\* list[x] and dict[kt, vt] (types.GenericAlias)
TList(x) == [k |-> "list", args |-> <<x>>]
TDict(kt, vt) == [k |-> "dict", args |-> <<kt, vt>>]

(***************************************************************************)
(* The names used by the classes and documents of the model.               *)
(***************************************************************************)
f_value == <<"v", "a", "l", "u", "e">>
f_opt == <<"o", "p", "t">>
f_count == <<"c", "o", "u", "n", "t">>
f_inner == <<"i", "n", "n", "e", "r">>
f_more_props == <<"m", "o", "r", "e", "_", "p", "r", "o", "p", "s">>
f_more_properties == <<"m", "o", "r", "e", "_", "p", "r", "o", "p", "e", "r", "t", "i", "e", "s">>
f_x == <<"x">>
f_y == <<"y">>
f_child == <<"c", "h", "i", "l", "d">>
f_item == <<"i", "t", "e", "m">>
f_other == <<"o", "t", "h", "e", "r">>
f_a_b == <<"a", "_", "b">>
k_a_dash_b == <<"a", "-", "b">>
k_a_dot_b == <<"a", ".", "b">>
f_label == <<"l", "a", "b", "e", "l">>
f_size == <<"s", "i", "z", "e">>
f_items == <<"i", "t", "e", "m", "s">>
f_named == <<"n", "a", "m", "e", "d">>
k_zz == <<"z", "z">>

(***************************************************************************)
(* The classes the caller loads into.  name is __name__, mro the class and *)
(* its bases in method resolution order, ann the class's own               *)
(* __annotations__ in declaration order, dict the class attributes of its  *)
(* own __dict__ (static defaults), dataclass whether @dataclass decorates  *)
(* it, hasinit whether it defines __init__, and sets the attribute in      *)
(* which that __init__ stores each of its keyword parameters.              *)
(***************************************************************************)
ClassIds == {"Inner", "Base", "Tool", "ToolWithInit", "Point", "Node", "Alt", "Keys", "Outer",
             "Bag"}

PlainClass(name, mro, ann, dict) ==
    [name |-> name, mro |-> mro, ann |-> ann, dict |-> dict,
     dataclass |-> FALSE, hasinit |-> FALSE, sets |-> EmptyDict]

Classes ==
    [c \in ClassIds |->
        CASE c = "Inner" ->
               PlainClass(<<"I", "n", "n", "e", "r">>, <<"Inner">>,
                          <<<<f_value, TStr>>>>, EmptyDict)
          [] c = "Base" ->
               PlainClass(<<"B", "a", "s", "e">>, <<"Base">>,
                          <<<<f_count, TInt>>>>, [k \in {f_count} |-> IntV(0)])
          [] c = "Tool" ->
               PlainClass(<<"T", "o", "o", "l">>, <<"Tool", "Base">>,
                          <<<<f_inner, TCls("Inner")>>>>, EmptyDict)
          [] c = "ToolWithInit" ->
               [name |-> <<"T", "o", "o", "l", "W", "i", "t", "h", "I", "n", "i", "t">>,
                mro |-> <<"ToolWithInit", "Tool", "Base">>,
                ann |-> <<<<f_more_props, TStr>>>>, dict |-> EmptyDict,
                dataclass |-> FALSE, hasinit |-> TRUE,
                sets |-> [p \in {f_more_properties} |-> f_more_props]]
          [] c = "Point" ->
               [name |-> <<"P", "o", "i", "n", "t">>, mro |-> <<"Point">>,
                ann |-> <<<<f_x, TInt>>, <<f_opt, TOptional(TStr)>>, <<f_y, TInt>>>>,
                dict |-> [k \in {f_y} |-> IntV(0)],
                dataclass |-> TRUE, hasinit |-> FALSE, sets |-> EmptyDict]
          [] c = "Node" ->
               PlainClass(<<"N", "o", "d", "e">>, <<"Node">>,
                          <<<<f_child, TCls("Node")>>>>, EmptyDict)
          [] c = "Alt" ->
               PlainClass(<<"A", "l", "t">>, <<"Alt">>,
                          <<<<f_item, TUnion(<<TCls("Base"), TStr>>)>>,
                            <<f_other, TUnionType(<<TCls("Base"), TNone>>)>>>>, EmptyDict)
          [] c = "Keys" ->
               PlainClass(<<"K", "e", "y", "s">>, <<"Keys">>,
                          <<<<f_a_b, TStr>>>>, EmptyDict)
          [] c = "Outer" ->
               PlainClass(<<"O", "u", "t", "e", "r">>, <<"Outer">>,
                          <<<<f_label, TStr>>, <<f_inner, TCls("Inner")>>, <<f_size, TInt>>>>,
                          EmptyDict)
          [] c = "Bag" ->
               PlainClass(<<"B", "a", "g">>, <<"Bag">>,
                          <<<<f_items, TList(TCls("Inner"))>>,
                            <<f_named, TDict(TStr, TCls("Inner"))>>>>,
                          EmptyDict)]

(***************************************************************************)
(* Helpers over sequences and annotation mappings.                         *)
(***************************************************************************)
Range(s) == {s[i] : i \in DOMAIN s}

\* an ordered dict of annotations is a sequence of <<name, type>> pairs
AnnKeys(ann) == {ann[i][1] : i \in DOMAIN ann}
AnnGet(ann, k) == ann[CHOOSE i \in DOMAIN ann : ann[i][1] = k][2]

(***************************************************************************)
(* helpers.camel_to_snake: an underscore before every capital that is not  *)
(* the first character, then lower case.                                   *)
(***************************************************************************)
Capitals == {"A", "B", "I", "K", "N", "O", "P", "T", "W"}
Lower(ch) ==
    CASE ch = "A" -> "a" [] ch = "B" -> "b" [] ch = "I" -> "i" [] ch = "K" -> "k"
      [] ch = "N" -> "n" [] ch = "O" -> "o" [] ch = "P" -> "p" [] ch = "T" -> "t" [] ch = "W" -> "w"
      [] OTHER -> ch

RECURSIVE camel_to_snake_from(_, _)
camel_to_snake_from(s, i) ==
    IF i > Len(s) THEN <<>>
    ELSE (IF s[i] \in Capitals /\ i > 1 THEN <<"_", Lower(s[i])>> ELSE <<Lower(s[i])>>)
         \o camel_to_snake_from(s, i + 1)

camel_to_snake(s) == camel_to_snake_from(s, 1)

_guess_key(clsname) == camel_to_snake(clsname)

(***************************************************************************)
(* _data_for_nested_key: key.split("."), then raw = raw[part] for every    *)
(* part.  Subscripting a value that is no dict raises TypeError, a part    *)
(* that is no key of the dict raises KeyError.                             *)
(***************************************************************************)
RECURSIVE SplitFrom(_, _, _)
SplitFrom(s, i, cur) ==
    IF i > Len(s) THEN <<cur>>
    ELSE IF s[i] = "." THEN <<cur>> \o SplitFrom(s, i + 1, <<>>)
    ELSE SplitFrom(s, i + 1, Append(cur, s[i]))

Split(s) == SplitFrom(s, 1, <<>>)

RECURSIVE TraverseParts(_, _)
TraverseParts(parts, raw) ==
    IF parts = <<>> THEN Ok(raw)
    ELSE IF raw.t # "map" THEN Raise("TypeError", NoKey)
    ELSE IF Head(parts) \notin DOMAIN raw.m THEN Raise("KeyError", Head(parts))
    ELSE TraverseParts(Tail(parts), raw.m[Head(parts)])

_data_for_nested_key(key, raw) == TraverseParts(Split(key), raw)

(***************************************************************************)
(* _load_data for a dict argument: data is a MapV, key and classname are   *)
(* optional arguments.                                                     *)
(***************************************************************************)
_load_data(data, key, classname) ==
    IF data.m = EmptyDict THEN Ok(MapV(EmptyDict))
    ELSE LET guessed ==
                 IF key.some THEN key
                 ELSE IF Cardinality(DOMAIN data.m) = 1
                      THEN Arg(CHOOSE k \in DOMAIN data.m : TRUE)
                 ELSE IF classname.some THEN Arg(_guess_key(classname.v))
                 ELSE NoArg
         IN  IF guessed.some /\ guessed.v # <<>>
             THEN _data_for_nested_key(guessed.v, data)
             ELSE Ok(data)

(***************************************************************************)
(* check_type: typeguard's answer to "does value match expected_type".     *)
(***************************************************************************)
RECURSIVE check_type(_, _)
check_type(value, expected_type) ==
    CASE expected_type.k = "int" -> value.t = "int"
      [] expected_type.k = "str" -> value.t = "str"
      [] expected_type.k = "NoneType" -> value.t = "none"
      [] expected_type.k = "cls" ->
           value.t = "inst" /\ expected_type.c \in Range(Classes[value.cls].mro)
      [] expected_type.k \in {"Union", "UnionType"} ->
           \E i \in DOMAIN expected_type.args : check_type(value, expected_type.args[i])
      [] expected_type.k = "list" ->
           /\ value.t = "list"
           /\ \A i \in DOMAIN value.l : check_type(value.l[i], expected_type.args[1])
      [] expected_type.k = "dict" ->
           /\ value.t = "map"
           /\ \A k \in DOMAIN value.m :
                  /\ check_type(StrV(Len(k)), expected_type.args[1])
                  /\ check_type(value.m[k], expected_type.args[2])

(***************************************************************************)
(* convert_config: drop the entries whose value is None and replace "-"    *)
(* and "." in the keys by "_".  The comprehension visits the entries in    *)
(* the dict's order, a later entry replacing an earlier one of the same    *)
(* converted key.  items.items() raises AttributeError when items is no    *)
(* dict.                                                                   *)
(***************************************************************************)
FieldKeyOrder == <<f_value, f_opt, f_count, f_inner, f_more_props, f_x, f_y, f_child,
                   f_item, f_other, k_a_dash_b, k_a_dot_b, f_a_b, f_label, f_size,
                   f_items, f_named, k_zz>>

ClassOrder == <<"Inner", "Base", "Tool", "ToolWithInit", "Point", "Node", "Alt", "Keys", "Outer",
                "Bag">>

KeyOrder ==
    FieldKeyOrder \o
    SelectSeq([i \in DOMAIN ClassOrder |-> _guess_key(Classes[ClassOrder[i]].name)],
              LAMBDA k : k \notin Range(FieldKeyOrder))

\* the keys of a dict in its order
KeysOf(m) == SelectSeq(KeyOrder, LAMBDA k : k \in DOMAIN m)

ReplaceKey(k) == [i \in DOMAIN k |-> IF k[i] \in {"-", "."} THEN "_" ELSE k[i]]

RECURSIVE ConvertFrom(_, _, _)
ConvertFrom(m, order, acc) ==
    IF order = <<>> THEN acc
    ELSE LET k == Head(order)
         IN  IF k \in DOMAIN m /\ m[k] # NoneV
             THEN ConvertFrom(m, Tail(order), Merge(acc, [x \in {ReplaceKey(k)} |-> m[k]]))
             ELSE ConvertFrom(m, Tail(order), acc)

convert_config(items) ==
    IF items.t # "map" THEN Raise("AttributeError", NoKey)
    ELSE Ok(ConvertFrom(items.m, KeyOrder, EmptyDict))

(***************************************************************************)
(* The type predicates.                                                    *)
(***************************************************************************)
\* type(_type) is type
IsPlainType(_type) == _type.k \in {"int", "str", "NoneType", "cls"}

\* _type.__module__
TypeModule(_type) ==
    CASE _type.k \in {"int", "str", "NoneType", "list", "dict"} -> "builtins"
      [] _type.k = "Union" -> "typing"
      [] _type.k = "UnionType" -> "types"
      [] OTHER -> "__main__"

is_builtin_type(_type) == TypeModule(_type) \in {"__builtin__", "builtins"}

is_from_types_or_typing(_type) == TypeModule(_type) \in {"types", "typing"}

is_from_other_toml_supported_module(_type) == TypeModule(_type) \in {"datetime", "math"}

\* typing.get_origin and typing.get_args
get_origin(_type) ==
    CASE _type.k = "Union" -> "typing.Union"
      [] _type.k = "UnionType" -> "types.UnionType"
      [] _type.k = "list" -> "list"
      [] _type.k = "dict" -> "dict"
      [] OTHER -> "None"

get_args(_type) ==
    IF _type.k \in {"Union", "UnionType", "list", "dict"} THEN _type.args ELSE <<>>

is_parameterized(_type) == get_origin(_type) # "None"

is_custom_class(_type) ==
    /\ IsPlainType(_type)
    /\ ~is_builtin_type(_type)
    /\ ~is_from_other_toml_supported_module(_type)
    /\ ~is_from_types_or_typing(_type)

\* issubclass(types.NoneType, _type): "True", "False", or "TypeError" when
\* argument 2 is a parameterized generic; a union asks its arguments in order
RECURSIVE NoneTypeIsSubclassOf(_)
RECURSIVE NoneTypeIsSubclassOfAny(_, _)
NoneTypeIsSubclassOfAny(args, i) ==
    IF i > Len(args) THEN "False"
    ELSE IF NoneTypeIsSubclassOf(args[i]) # "False" THEN NoneTypeIsSubclassOf(args[i])
    ELSE NoneTypeIsSubclassOfAny(args, i + 1)

NoneTypeIsSubclassOf(_type) ==
    CASE _type.k = "NoneType" -> "True"
      [] _type.k \in {"list", "dict"} -> "TypeError"
      [] _type.k \in {"Union", "UnionType"} -> NoneTypeIsSubclassOfAny(_type.args, 1)
      [] OTHER -> "False"

\* the outcome of is_optional: a bool, or the TypeError of issubclass
is_optional(_type) ==
    IF NoneTypeIsSubclassOf(_type) = "TypeError" THEN Raise("TypeError", NoKey)
    ELSE Ok(NoneTypeIsSubclassOf(_type) = "True" \/ TNone \in Range(get_args(_type)))

(***************************************************************************)
(* _all_annotations and all_annotations.  A ChainMap iterates its maps     *)
(* from the last to the first, keeping the position of a key's first       *)
(* appearance, and reads a key from the first map that holds it.           *)
(***************************************************************************)
RECURSIVE AppendNewKeys(_, _, _)
AppendNewKeys(keys, ann, i) ==
    IF i > Len(ann) THEN keys
    ELSE AppendNewKeys(IF ann[i][1] \in Range(keys) THEN keys ELSE Append(keys, ann[i][1]),
                       ann, i + 1)

RECURSIVE ChainMapKeys(_, _)
ChainMapKeys(maps, i) ==
    IF i = 0 THEN <<>>
    ELSE AppendNewKeys(ChainMapKeys(maps, i - 1), maps[Len(maps) - i + 1], 1)

ChainMapGet(maps, k) ==
    AnnGet(maps[CHOOSE i \in DOMAIN maps :
                    /\ k \in AnnKeys(maps[i])
                    /\ \A j \in 1..(i - 1) : k \notin AnnKeys(maps[j])], k)

_all_annotations(cls) ==
    LET mro == Classes[cls].mro
        withAnn == SelectSeq(mro, LAMBDA c : Classes[c].ann # <<>>)
        maps == [i \in DOMAIN withAnn |-> Classes[withAnn[i]].ann]
        keys == ChainMapKeys(maps, Len(maps))
    IN  [i \in DOMAIN keys |-> <<keys[i], ChainMapGet(maps, keys[i])>>]

\* all_annotations without the removal of the names in _except
all_annotations_unfiltered(cls, _except) == _all_annotations(cls)

all_annotations(cls, _except) ==
    SelectSeq(_all_annotations(cls), LAMBDA kv : kv[1] \notin _except)

(***************************************************************************)
(* ensure_types: the first annotated key, in the order of annotations,     *)
(* whose value does not match its type raises ConfigErrorInvalidType; a    *)
(* key missing from data is skipped.                                       *)
(***************************************************************************)
ConfigErrorInvalidType(key, value, expected_type) ==
    [kind |-> "InvalidType", key |-> key, value |-> value]

ConfigErrorMissingKey(key, cls, annotated_type) ==
    [kind |-> "MissingKey", key |-> key, cls |-> cls]

RECURSIVE EnsureFrom(_, _, _, _)
EnsureFrom(data, annotations, i, final) ==
    IF i > Len(annotations) THEN Ok(final)
    ELSE LET key == annotations[i][1]
             _type == annotations[i][2]
         IN  IF key \notin DOMAIN data
             THEN EnsureFrom(data, annotations, i + 1, final)
             ELSE IF ~check_type(data[key], _type)
             THEN ConfigErrorInvalidType(key, data[key], _type)
             ELSE EnsureFrom(data, annotations, i + 1,
                             Merge(final, [x \in {key} |-> data[key]]))

\* ensure_types without the call of check_type
ensure_types_unchecked(data, annotations) ==
    Ok([k \in (DOMAIN data) \cap AnnKeys(annotations) |-> data[k]])

ensure_types(data, annotations) == EnsureFrom(data, annotations, 1, EmptyDict)

(***************************************************************************)
(* Calling a class.  A class without __init__ of its own or inherited      *)
(* takes no arguments; a hand-written __init__ takes exactly its           *)
(* parameters and stores each in its attribute; the __init__ that          *)
(* @dataclass generates takes the fields, those with a default being       *)
(* optional.  Wrong arguments raise TypeError.                             *)
(***************************************************************************)
is_dataclass(cls) == \E c \in Range(Classes[cls].mro) : Classes[c].dataclass

InitOwner(cls) ==
    LET mro == Classes[cls].mro
        owners == {i \in DOMAIN mro : Classes[mro[i]].hasinit}
    IN  IF owners = {} THEN "object"
        ELSE mro[CHOOSE i \in owners : \A j \in owners : i <= j]

\* the static default a class attribute lookup finds (own or inherited)
ClassAttr(cls, k) ==
    LET mro == Classes[cls].mro
        i == CHOOSE i \in DOMAIN mro :
                 /\ k \in DOMAIN Classes[mro[i]].dict
                 /\ \A j \in 1..(i - 1) : k \notin DOMAIN Classes[mro[j]].dict
    IN  Classes[mro[i]].dict[k]

HasClassAttr(cls, k) == \E c \in Range(Classes[cls].mro) : k \in DOMAIN Classes[c].dict

CallClass(cls, kwargs) ==
    IF is_dataclass(cls)
    THEN LET fields == AnnKeys(_all_annotations(cls))
             required == {k \in fields : ~HasClassAttr(cls, k)}
         IN  IF (DOMAIN kwargs) \subseteq fields /\ required \subseteq DOMAIN kwargs
             THEN Ok(InstV(cls, [k \in fields |->
                                    IF k \in DOMAIN kwargs THEN kwargs[k]
                                    ELSE ClassAttr(cls, k)]))
             ELSE Raise("TypeError", NoKey)
    ELSE LET owner == InitOwner(cls)
             sets == IF owner = "object" THEN EmptyDict ELSE Classes[owner].sets
         IN  IF DOMAIN kwargs = DOMAIN sets
             THEN Ok(InstV(cls, [a \in {sets[p] : p \in DOMAIN sets} |->
                                    kwargs[CHOOSE p \in DOMAIN sets : sets[p] = a]]))
             ELSE Raise("TypeError", NoKey)

(***************************************************************************)
(* load_recursive, _check_and_convert_data and load_into_recurse.          *)
(***************************************************************************)
RECURSIVE load_into_recurse(_, _, _)
RECURSIVE LoadAll(_, _, _, _)

\* what "for subvalue in value" visits: the items of a list, the keys of a
\* dict, the characters of a str
Iterate(value) ==
    CASE value.t = "list" -> value.l
      [] value.t = "map" -> [i \in DOMAIN KeysOf(value.m) |-> StrV(Len(KeysOf(value.m)[i]))]
      [] value.t = "str" -> [i \in 1..value.v |-> StrV(1)]

\* the load_into_recurse calls that load_recursive makes for one field that
\* data holds: the classes and the values they are called with, in order.
\*   one    load_into_recurse(_type, value)
\*   list   [load_into_recurse(subtype, subvalue) for subvalue in value]
\*   dict   {subkey: load_into_recurse(subvaluetype, subvalue) for ... in value.items()}
\*   union  for arg in arguments: if is_custom_class(arg): value = load_into_recurse(arg, value)
\*          (chained: every call but the first gets what the call before returned)
\*   keep   no call, the value stays as it is
\*   raise  iterating the value, or value.items(), raises
Keep == [kind |-> "keep"]
Calls(kind, classes, values) == [kind |-> kind, classes |-> classes, values |-> values]

NestedLoads(_type, value) ==
    IF is_parameterized(_type)
    THEN IF /\ get_origin(_type) = "list" /\ get_args(_type) # <<>>
            /\ is_custom_class(get_args(_type)[1])
         THEN IF value.t \notin {"list", "map", "str"}
              THEN [kind |-> "raise", exc |-> Raise("TypeError", NoKey)]
              ELSE Calls("list", [i \in DOMAIN Iterate(value) |-> get_args(_type)[1].c],
                         Iterate(value))
         ELSE IF /\ get_origin(_type) = "dict" /\ get_args(_type) # <<>>
                 /\ is_custom_class(get_args(_type)[2])
         THEN IF value.t # "map"
              THEN [kind |-> "raise", exc |-> Raise("AttributeError", NoKey)]
              ELSE Calls("dict", [i \in DOMAIN KeysOf(value.m) |-> get_args(_type)[2].c],
                         [i \in DOMAIN KeysOf(value.m) |-> value.m[KeysOf(value.m)[i]]])
         ELSE IF get_origin(_type) = "typing.Union" /\ get_args(_type) # <<>>
         THEN Calls("union",
                    [i \in DOMAIN SelectSeq(get_args(_type), is_custom_class) |->
                        SelectSeq(get_args(_type), is_custom_class)[i].c],
                    [i \in DOMAIN SelectSeq(get_args(_type), is_custom_class) |-> value])
         ELSE Keep
    ELSE IF is_custom_class(_type)
    THEN Calls("one", <<_type.c>>, <<value>>)
    ELSE Keep

\* the calls made one after the other; the first that raises ends them
LoadAll(classes, values, chained, loaded) ==
    IF Len(loaded) = Len(classes) THEN Ok(loaded)
    ELSE Bind(load_into_recurse(classes[Len(loaded) + 1],
                                IF chained /\ loaded # <<>> THEN loaded[Len(loaded)]
                                ELSE values[Len(loaded) + 1],
                                EmptyDict),
              LAMBDA item : LoadAll(classes, values, chained, Append(loaded, item)))

\* the value of the field after the calls
Assemble(kind, value, loaded) ==
    CASE kind = "one" -> loaded[1]
      [] kind = "list" -> ListV(loaded)
      [] kind = "dict" ->
           MapV([k \in DOMAIN value.m |->
                    loaded[CHOOSE i \in DOMAIN loaded : KeysOf(value.m)[i] = k]])
      [] kind = "union" -> IF loaded = <<>> THEN value ELSE loaded[Len(loaded)]

ResolvePresent(calls, value) ==
    IF calls.kind = "keep" THEN Ok(value)
    ELSE IF calls.kind = "raise" THEN calls.exc
    ELSE Bind(LoadAll(calls.classes, calls.values, calls.kind = "union", <<>>),
              LAMBDA loaded : Ok(Assemble(calls.kind, value, loaded)))

\* the body of load_recursive's loop for one annotation
ResolveField(cls, data, _key, _type) ==
    IF _key \in DOMAIN data
    THEN ResolvePresent(NestedLoads(_type, data[_key]), data[_key])
    ELSE IF _key \in DOMAIN Classes[cls].dict
    THEN Ok(Classes[cls].dict[_key])
    ELSE Bind(is_optional(_type),
              LAMBDA optional : IF optional THEN Ok(NoneV)
                                ELSE ConfigErrorMissingKey(_key, cls, _type))

RECURSIVE LoadRecursiveFrom(_, _, _, _, _)
LoadRecursiveFrom(cls, data, annotations, i, updated) ==
    IF i > Len(annotations) THEN Ok(updated)
    ELSE Bind(ResolveField(cls, data, annotations[i][1], annotations[i][2]),
              LAMBDA value :
                  LoadRecursiveFrom(cls, data, annotations, i + 1,
                                    Merge(updated, [x \in {annotations[i][1]} |-> value])))

load_recursive(cls, data, annotations) == LoadRecursiveFrom(cls, data, annotations, 1, EmptyDict)

\* _check_and_convert_data with ensure_types called before load_recursive
_check_and_convert_data_validating_first(cls, data, _except) ==
    Bind(Ok(all_annotations(cls, _except)), LAMBDA annotations :
    Bind(convert_config(data), LAMBDA converted :
    Bind(ensure_types(converted, annotations), LAMBDA checked :
         load_recursive(cls, converted, annotations))))

_check_and_convert_data(cls, data, _except) ==
    Bind(Ok(all_annotations(cls, _except)), LAMBDA annotations :
    Bind(convert_config(data), LAMBDA converted :
    Bind(load_recursive(cls, converted, annotations), LAMBDA resolved :
         ensure_types(resolved, annotations))))

load_into_recurse(cls, data, init) ==
    IF is_dataclass(cls)
    THEN Bind(_check_and_convert_data(cls, data, DOMAIN init), LAMBDA to_load :
              CallClass(cls, Merge(to_load, init)))
    ELSE Bind(CallClass(cls, init), LAMBDA made :
         Bind(_check_and_convert_data(cls, data, DOMAIN made.d), LAMBDA to_load :
              Ok(InstV(cls, Merge(made.d, to_load)))))

(***************************************************************************)
(* load_into_existing: returns the outcome and the instance as the call    *)
(* leaves it (the instance is changed in place).                           *)
(***************************************************************************)
\* what a call on an instance leaves: its outcome, and the instance, which is
\* the returned one when the call returns and untouched when it raises
Returned(existing, outcome) ==
    [res |-> outcome, inst |-> IF outcome.kind = "ok" THEN outcome.val ELSE existing]

\* load_into_existing with inst.__dict__.update called before ensure_types
Updated(existing, resolved, outcome) ==
    [res |-> IF outcome.kind = "ok" THEN Ok(InstV(existing.cls, Merge(existing.d, resolved)))
             ELSE outcome,
     inst |-> InstV(existing.cls, Merge(existing.d, resolved))]

UpdatedEarly(existing, annotations, resolved) ==
    IF resolved.kind # "ok" THEN [res |-> resolved, inst |-> existing]
    ELSE Updated(existing, resolved.val, ensure_types(resolved.val, annotations))

load_into_existing_updating_early(existing, cls, data, init) ==
    IF init.some
    THEN [res |-> Raise("ValueError", NoKey), inst |-> existing]
    ELSE UpdatedEarly(existing, all_annotations(cls, DOMAIN existing.d),
                      Bind(convert_config(data), LAMBDA converted :
                           load_recursive(cls, converted,
                                          all_annotations(cls, DOMAIN existing.d))))

load_into_existing(existing, cls, data, init) ==
    IF init.some
    THEN [res |-> Raise("ValueError", NoKey), inst |-> existing]
    ELSE Returned(existing,
             Bind(Ok(all_annotations(cls, DOMAIN existing.d)), LAMBDA annotations :
             Bind(convert_config(data), LAMBDA converted :
             Bind(load_recursive(cls, converted, annotations), LAMBDA resolved :
             Bind(ensure_types(resolved, annotations), LAMBDA to_load :
                  Ok(InstV(existing.cls, Merge(existing.d, to_load))))))))

(***************************************************************************)
(* load_into_class, load_into_instance and load_into.  The target is a     *)
(* class, [t |-> "type", c |-> id], or an instance.                        *)
(***************************************************************************)
TypeV(c) == [t |-> "type", c |-> c]

load_into_class(cls, data, key, init) ==
    Bind(_load_data(data, key, Arg(Classes[cls].name)), LAMBDA to_load :
         load_into_recurse(cls, to_load, IF init.some THEN init.v ELSE EmptyDict))

\* load_into_instance after its call of _load_data
LoadedFor(existing, cls, to_load, init) ==
    IF to_load.kind # "ok" THEN [res |-> to_load, inst |-> existing]
    ELSE load_into_existing(existing, cls, to_load.val, init)

load_into_instance(existing, data, key, init) ==
    LoadedFor(existing, existing.cls, _load_data(data, key, Arg(Classes[existing.cls].name)), init)

load_into(target, data, key, init) ==
    IF target.t # "type"
    THEN load_into_instance(target, data, key, init)
    ELSE [res |-> load_into_class(target.c, data, key, init), inst |-> NoneV]

(***************************************************************************)
(* The documents and arguments the caller passes.                          *)
(***************************************************************************)
Scalars == {NoneV, IntV(1), StrV(1)}

\* the spellings under which a document may hold a field
Spellings(field) == IF field = f_a_b THEN <<k_a_dash_b, k_a_dot_b, f_a_b>> ELSE <<field>>

RECURSIVE Flatten(_)
Flatten(ss) == IF ss = <<>> THEN <<>> ELSE Head(ss) \o Flatten(Tail(ss))

\* the raw keys of a class's documents, each with the type of its field
RawKeys(cls) ==
    LET ann == _all_annotations(cls)
    IN  Flatten([i \in DOMAIN ann |->
                    [j \in DOMAIN Spellings(ann[i][1]) |->
                        <<Spellings(ann[i][1])[j], ann[i][2]>>]])

\* the classes a type names
ClassesIn(_type) ==
    IF _type.k = "cls" THEN {_type.c}
    ELSE {get_args(_type)[i].c : i \in {j \in DOMAIN get_args(_type) : get_args(_type)[j].k = "cls"}}

RECURSIVE DocsOf(_, _)
RECURSIVE DocsFrom(_, _, _)

\* the documents of the classes a type names (depth levels of nesting are left)
NestedDocs(_type, depth) ==
    IF depth = 0 THEN {}
    ELSE UNION {DocsOf(c, depth - 1) : c \in ClassesIn(_type)}

\* what a document may hold under a key of the given type: a scalar, one of
\* the given documents of a class the type names, and for a list or dict type
\* an array or table of at most one item, which is such a document or a scalar
ValuesOver(_type, docs) ==
    Scalars
    \cup {MapV(m) : m \in docs}
    \cup (IF _type.k = "list"
          THEN {ListV(<<>>), ListV(<<IntV(1)>>)} \cup {ListV(<<MapV(m)>>) : m \in docs}
          ELSE {})
    \cup (IF _type.k = "dict"
          THEN {ListV(<<>>), MapV([k \in {k_zz} |-> IntV(1)])}
               \cup {MapV([k \in {k_zz} |-> MapV(m)]) : m \in docs}
          ELSE {})

ValueOptions(_type, depth) == ValuesOver(_type, NestedDocs(_type, depth))

DocsFrom(keys, i, depth) ==
    IF i > Len(keys) THEN {EmptyDict}
    ELSE LET rest == DocsFrom(keys, i + 1, depth)
         IN  rest \cup {Merge(r, [x \in {keys[i][1]} |-> v]) :
                           r \in rest, v \in ValueOptions(keys[i][2], depth)}

DocsOf(cls, depth) == DocsFrom(RawKeys(cls), 1, depth)

\* where the document of the class sits in the data passed to load_into
Wrappings(cls, m) ==
    LET g == _guess_key(Classes[cls].name)
    IN  { MapV(m),
          MapV([k \in {g} |-> MapV(m)]),
          MapV([k \in {g, k_zz} |-> IF k = g THEN MapV(m) ELSE IntV(1)]),
          MapV([k \in {k_zz} |-> MapV(m)]),
          MapV([k \in {k_zz} |-> MapV([k2 \in {g} |-> MapV(m)])]) }

KeyArgs(cls) ==
    LET g == _guess_key(Classes[cls].name)
    IN  {NoArg, Arg(g), Arg(<<>>), Arg(k_zz \o <<".">> \o g)}

\* the keyword arguments of cls.__init__ a caller may pass as init
InitKeys(cls) ==
    IF is_dataclass(cls) THEN {f_x}
    ELSE IF InitOwner(cls) = "object" THEN {}
    ELSE DOMAIN Classes[InitOwner(cls)].sets

InitArgs(cls) ==
    {NoArg, Arg(EmptyDict)} \cup
    {Arg([k \in {p} |-> v]) : p \in InitKeys(cls), v \in {IntV(1), StrV(1)}}

\* the classes of which the caller holds an instance of its own
ExistingClasses == {"Tool", "ToolWithInit"}

\* the ways the caller places and selects the document for an existing instance
InstanceWrappings(cls, m) ==
    LET g == _guess_key(Classes[cls].name)
    IN  { MapV(m), MapV([k \in {g} |-> MapV(m)]) }

InstanceKeyArgs(cls) == {NoArg, Arg(k_zz)}

InstanceInitArgs == {NoArg, Arg([k \in {f_more_properties} |-> StrV(1)])}

(***************************************************************************)
(* The caller.  From "start" it either calls load_into with a class        *)
(* (pc = "returned"), or makes an instance itself (pc = "constructed"),    *)
(* may set one attribute on it (pc = "prepared") and calls load_into with  *)
(* the instance up to MaxLoads times (pc = "augmented").                   *)
(*   inst    the caller's own instance                                     *)
(*   call    the arguments of the last load_into call; for a call with an  *)
(*           instance, target is the instance as it was before the call    *)
(*           and data and key are not recorded                             *)
(*   result  the outcome of the last load_into call                        *)
(*   loads   the number of load_into calls made with inst                  *)
(***************************************************************************)
NoCall == [target |-> NoneV]
NoResult == [kind |-> "none"]

Init ==
    /\ pc = "start"
    /\ inst = NoneV
    /\ call = NoCall
    /\ result = NoResult
    /\ loads = 0

\* load_into(target, data, key, init): with a class it returns a new instance
\* or raises; with the caller's instance it changes the instance in place
LoadInto(target, data, key, init) ==
    /\ pc \in {"start", "constructed", "prepared", "augmented"}
    /\ loads < MaxLoads
    /\ pc' = IF target.t = "type" THEN "returned" ELSE "augmented"
    /\ call' = IF target.t = "type"
               THEN [target |-> target, data |-> data, key |-> key, init |-> init]
               ELSE [target |-> target, init |-> init]
    /\ LET r == load_into(target, data, key, init)
       IN  /\ result' = r.res
           /\ inst' = r.inst
    /\ loads' = IF target.t = "type" THEN loads ELSE loads + 1

Construct(cls, kwargs) ==
    /\ pc = "start"
    /\ CallClass(cls, kwargs).kind = "ok"
    /\ pc' = "constructed"
    /\ inst' = CallClass(cls, kwargs).val
    /\ UNCHANGED <<call, result, loads>>

SetAttr(field, value) ==
    /\ pc = "constructed"
    /\ pc' = "prepared"
    /\ inst' = InstV(inst.cls, Merge(inst.d, [k \in {field} |-> value]))
    /\ UNCHANGED <<call, result, loads>>

\* the declared fields of the class of the caller's instance
InstanceFields == IF inst.t = "inst" THEN AnnKeys(_all_annotations(inst.cls)) ELSE {}

\* what the caller passes to load_into: a class, or its own instance; the
\* documents loaded into an instance are those of Tool, whose fields are the
\* ones the constructors of the existing classes leave unset
Targets == IF pc = "start" THEN {TypeV(cls) : cls \in ClassIds} ELSE {inst}
TargetDocs(target) == DocsOf(IF target.t = "type" THEN target.c ELSE "Tool", MaxDepth)
TargetWrappings(target, m) ==
    IF target.t = "type" THEN Wrappings(target.c, m) ELSE InstanceWrappings(target.cls, m)
TargetKeyArgs(target) ==
    IF target.t = "type" THEN KeyArgs(target.c) ELSE InstanceKeyArgs(target.cls)
TargetInitArgs(target) ==
    IF target.t = "type" THEN InitArgs(target.c) ELSE InstanceInitArgs

Next ==
    \/ /\ pc \in {"start", "constructed", "prepared", "augmented"}
       /\ loads < MaxLoads
       /\ \E target \in Targets :
            \E m \in TargetDocs(target) :
              \E data \in TargetWrappings(target, m), key \in TargetKeyArgs(target),
                 init \in TargetInitArgs(target) :
                LoadInto(target, data, key, init)
    \/ /\ pc = "start"
       /\ \E cls \in ExistingClasses :
            \E kwargs \in {EmptyDict} \cup
                           {[k \in {f_more_properties} |-> v] : v \in {IntV(1), StrV(1)}} :
              Construct(cls, kwargs)
    \/ /\ pc = "constructed"
       /\ \E field \in InstanceFields, value \in {IntV(1), StrV(1)} :
            SetAttr(field, value)

Spec == Init /\ [][Next]_vars

(***************************************************************************)
(* What the properties below read from a state.                            *)
(***************************************************************************)
\* a load_into call with a class has returned or raised
ClassCall == pc = "returned"
\* a load_into call with the caller's instance has returned or raised
InstanceCall == pc = "augmented"

\* the init mapping of the last call ({} when none was given)
InitOf(c) == IF c.init.some THEN c.init.v ELSE EmptyDict

\* the mapping _load_data selects for the last call with a class
ScopedData == _load_data(call.data, call.key, Arg(Classes[call.target.c].name))
Scoped == ClassCall /\ ScopedData.kind = "ok" /\ ScopedData.val.t = "map"

\* the Field Declaration Set of a class: own and inherited annotations
Declared(cls) == _all_annotations(cls)

(***************************************************************************)
(* C2.  load_into with an existing instance and a non-empty init mapping   *)
(* always fails with ValueError, whatever the data and the key.            *)
(***************************************************************************)
C2_AugmentWithInitIsUsageError ==
    (InstanceCall /\ call.init.some /\ call.init.v # EmptyDict)
        => result.kind = "ValueError"

(***************************************************************************)
(* C3.  Default-fill: a declared field, own or inherited, that the         *)
(* normalized data does not hold and for which a static default is         *)
(* declared on the type or on the ancestor declaring it, is loaded as that *)
(* default: it is neither reported as MissingKey nor set to None.          *)
(***************************************************************************)
C3_DefaultFill ==
    (Scoped /\ InitOf(call) = EmptyDict)
        => \A i \in DOMAIN Declared(call.target.c) :
              LET f == Declared(call.target.c)[i][1]
                  cls == call.target.c
              IN  (f \notin DOMAIN convert_config(ScopedData.val).val /\ HasClassAttr(cls, f))
                      => /\ ~(result.kind = "MissingKey" /\ result.key = f /\ result.cls = cls)
                         /\ (result.kind = "ok" => result.val.d[f] = ClassAttr(cls, f))

(***************************************************************************)
(* C4.  Key selection without a key argument: for data with two or more    *)
(* top-level entries none of which is the key derived from the type's      *)
(* name, the fields are resolved against the whole mapping.                *)
(***************************************************************************)
C4_UnscopedFallback ==
    (/\ ClassCall
     /\ ~call.key.some
     /\ Cardinality(DOMAIN call.data.m) >= 2
     /\ _guess_key(Classes[call.target.c].name) \notin DOMAIN call.data.m)
        => result = load_into_recurse(call.target.c, call.data, InitOf(call))

(***************************************************************************)
(* C5.  A field present in the data whose type is a union with exactly one *)
(* record-type variant: a mapping is resolved to the instance a recursive  *)
(* load of it gives; a value that is no mapping and matches another        *)
(* variant of the union is left unchanged by the resolver, without a       *)
(* recursive load and without an error, and then passes validation.        *)
(***************************************************************************)
IsUnion(_type) == _type.k \in {"Union", "UnionType"}
RecordVariants(_type) == {i \in DOMAIN get_args(_type) : get_args(_type)[i].k = "cls"}

C5_UnionWithOneRecordVariant ==
    (Scoped /\ InitOf(call) = EmptyDict)
        => \A i \in DOMAIN Declared(call.target.c) :
              LET cls == call.target.c
                  f == Declared(cls)[i][1]
                  _type == Declared(cls)[i][2]
                  data == convert_config(ScopedData.val).val
              IN  (IsUnion(_type) /\ Cardinality(RecordVariants(_type)) = 1 /\ f \in DOMAIN data)
                      => /\ data[f].t = "map"
                            => ResolveField(cls, data, f, _type) =
                                   load_into_recurse(
                                       get_args(_type)[CHOOSE j \in RecordVariants(_type) : TRUE].c,
                                       data[f], EmptyDict)
                         /\ (data[f].t # "map" /\ check_type(data[f], _type))
                            => /\ ResolveField(cls, data, f, _type) = Ok(data[f])
                               /\ ~(result.kind = "InvalidType" /\ result.key = f)

(***************************************************************************)
(* C6.  A load of a record type with a required field typed as the type    *)
(* itself ends with MissingKey, raised where the data is exhausted.        *)
(***************************************************************************)
RequiredSelfField(cls) ==
    \E i \in DOMAIN Declared(cls) :
        /\ Declared(cls)[i][2] = TCls(cls)
        /\ ~HasClassAttr(cls, Declared(cls)[i][1])

C6_SelfReferenceEndsWithMissingKey ==
    (Scoped /\ InitOf(call) = EmptyDict /\ RequiredSelfField(call.target.c))
        => result.kind = "MissingKey"

(***************************************************************************)
(* C1.  As claimed: after a successful load_into call, in every mode,      *)
(* every declared field is on the returned instance and matches its type,  *)
(* except the fields named by the keys of the init mapping.                *)
(***************************************************************************)
Succeeded == (ClassCall \/ InstanceCall) /\ result.kind = "ok"
TargetClass == IF ClassCall THEN call.target.c ELSE call.target.cls

FieldsLoadedAndTyped(exempt) ==
    \A i \in DOMAIN Declared(TargetClass) :
        LET f == Declared(TargetClass)[i][1]
        IN  /\ f \in DOMAIN result.val.d
            /\ f \notin exempt => check_type(result.val.d[f], Declared(TargetClass)[i][2])

C1_AllFieldsTypedExceptInitKeys ==
    Succeeded => FieldsLoadedAndTyped(DOMAIN InitOf(call))

(***************************************************************************)
(* C1, amended.  After a successful load_into call, in every mode, every   *)
(* declared field is on the returned instance, and matches its type unless *)
(* the loader never resolved it: in fresh construction of a dataclass the  *)
(* fields named by the keys of init, in construct-then-populate the fields *)
(* the constructor has set, in augmentation the fields the instance had    *)
(* before the call.                                                        *)
(***************************************************************************)
NotResolved ==
    IF InstanceCall THEN DOMAIN call.target.d
    ELSE IF is_dataclass(call.target.c) THEN DOMAIN InitOf(call)
    ELSE DOMAIN CallClass(call.target.c, InitOf(call)).val.d

C1_AllResolvedFieldsTyped ==
    Succeeded => FieldsLoadedAndTyped(NotResolved)

\* a construct-then-populate load has succeeded: the constructor has set one
\* declared field, the loader has resolved and validated the others
C1_Witness ==
    /\ ClassCall
    /\ result.kind = "ok"
    /\ ~is_dataclass(call.target.c)
    /\ NotResolved # {}
    /\ \E i \in DOMAIN Declared(call.target.c) :
           /\ Declared(call.target.c)[i][1] \notin NotResolved
           /\ Declared(call.target.c)[i][2] = TCls("Inner")
           /\ result.val.d[Declared(call.target.c)[i][1]].t = "inst"

(***************************************************************************)
(* C7.  No partial state on failure: when a load into the caller's         *)
(* existing instance fails, with whatever exception and at whatever        *)
(* nesting depth, the instance has exactly the fields and values it had    *)
(* before the call; when it succeeds, every field it has assigned is a     *)
(* declared field whose value matches its type.                            *)
(***************************************************************************)
C7_NoPartialStateOnFailure ==
    InstanceCall =>
        /\ result.kind # "ok" => inst = call.target
        /\ result.kind = "ok" =>
              /\ \A f \in DOMAIN call.target.d : inst.d[f] = call.target.d[f]
              /\ \A f \in (DOMAIN inst.d) \ (DOMAIN call.target.d) :
                     /\ f \in AnnKeys(Declared(inst.cls))
                     /\ check_type(inst.d[f], AnnGet(Declared(inst.cls), f))

\* a load into an instance that held a field has failed inside the nested
\* record of inner, after count had been resolved
C7_Witness ==
    /\ InstanceCall
    /\ result.kind = "MissingKey"
    /\ result.cls = "Inner"
    /\ call.target.d # EmptyDict
    /\ f_count \notin DOMAIN call.target.d
    /\ inst = call.target

(***************************************************************************)
(* C10.  Augmentation never overwrites: a load into the caller's existing  *)
(* instance keeps every field the instance has and adds declared fields    *)
(* only; a successful load leaves every declared field present; and a load *)
(* into an instance that has every declared field changes nothing and      *)
(* raises neither MissingKey nor InvalidType.                               *)
(***************************************************************************)
AllDeclaredPresent(i) == AnnKeys(Declared(i.cls)) \subseteq DOMAIN i.d

C10_AugmentationNeverOverwrites ==
    [][pc' = "augmented" =>
          /\ inst'.cls = inst.cls
          /\ \A f \in DOMAIN inst.d : f \in DOMAIN inst'.d /\ inst'.d[f] = inst.d[f]
          /\ ((DOMAIN inst'.d) \ (DOMAIN inst.d)) \subseteq AnnKeys(Declared(inst.cls))
          /\ result'.kind = "ok" => AllDeclaredPresent(inst')
          /\ AllDeclaredPresent(inst) =>
                 /\ inst' = inst
                 /\ result'.kind \notin {"MissingKey", "InvalidType"}]_vars

\* a second load into an instance that had every declared field has returned
C10_Witness ==
    /\ InstanceCall
    /\ loads >= 2
    /\ AllDeclaredPresent(call.target)
    /\ result.kind = "ok"
    /\ inst = call.target

(***************************************************************************)
(* What a load_into call with a class resolves: the fields left to the     *)
(* loader, the converted data and the resolution of each field.            *)
(***************************************************************************)
\* the constructor call of construct-then-populate does not raise
CtorOk == is_dataclass(call.target.c) \/ CallClass(call.target.c, InitOf(call)).kind = "ok"

Annotations == all_annotations(call.target.c, NotResolved)
Converted == convert_config(ScopedData.val).val
Resolution(i) == ResolveField(call.target.c, Converted, Annotations[i][1], Annotations[i][2])

Least(S) == CHOOSE i \in S : \A j \in S : i <= j

(***************************************************************************)
(* C8.  Null equals absent: loading data in which an entry maps to null,   *)
(* at the top level or in a nested document loaded as a record, has the    *)
(* same outcome as loading the data with that entry removed; and a         *)
(* declared field which the data holds as null only is loaded as the       *)
(* static default its type declares, else as None if it is optional, else  *)
(* the load fails, with MissingKey naming the field when no earlier field  *)
(* has failed.                                                             *)
(***************************************************************************)
\* the class as which the resolver loads the value held under raw key k
NestedClasses(cls, k) ==
    IF ReplaceKey(k) \notin AnnKeys(Declared(cls)) THEN {}
    ELSE LET _type == AnnGet(Declared(cls), ReplaceKey(k))
         IN  IF is_custom_class(_type) THEN {_type.c}
             ELSE IF get_origin(_type) = "typing.Union"
             THEN {get_args(_type)[i].c :
                      i \in {j \in DOMAIN get_args(_type) : is_custom_class(get_args(_type)[j])}}
             ELSE {}

RECURSIVE OneNullRemoved(_, _)
OneNullRemoved(cls, m) ==
    {[k \in (DOMAIN m) \ {f} |-> m[k]] : f \in {k \in DOMAIN m : m[k] = NoneV}}
    \cup UNION {UNION {{[m EXCEPT ![k] = MapV(n)] : n \in OneNullRemoved(c, m[k].m)} :
                          c \in NestedClasses(cls, k)} :
                   k \in {x \in DOMAIN m : m[x].t = "map"}}

\* the declared fields, left to the loader, that the data holds as null only
NullFields ==
    {i \in DOMAIN Annotations :
        /\ Annotations[i][1] \notin DOMAIN Converted
        /\ \E k \in DOMAIN ScopedData.val.m :
               ReplaceKey(k) = Annotations[i][1] /\ ScopedData.val.m[k] = NoneV}

C8_NullEqualsAbsent ==
    Scoped =>
        /\ \A m \in OneNullRemoved(call.target.c, ScopedData.val.m) :
               result = load_into_recurse(call.target.c, MapV(m), InitOf(call))
        /\ CtorOk =>
              \A i \in NullFields :
                  LET cls == call.target.c
                      f == Annotations[i][1]
                      _type == Annotations[i][2]
                  IN  /\ f \in DOMAIN Classes[cls].dict
                            => /\ result.kind = "ok" => result.val.d[f] = Classes[cls].dict[f]
                               /\ result # ConfigErrorMissingKey(f, cls, _type)
                      /\ (~HasClassAttr(cls, f) /\ is_optional(_type) = Ok(TRUE))
                            => /\ result.kind = "ok" => result.val.d[f] = NoneV
                               /\ result # ConfigErrorMissingKey(f, cls, _type)
                      /\ (~HasClassAttr(cls, f) /\ is_optional(_type) # Ok(TRUE))
                            => /\ result.kind # "ok"
                               /\ (\A j \in 1..(i - 1) : Resolution(j).kind = "ok")
                                      => result = ConfigErrorMissingKey(f, cls, _type)

(***************************************************************************)
(* C9.  As claimed: validation runs only after all fields have been        *)
(* resolved, so (1) a load whose data lacks a required field and holds a   *)
(* wrongly typed value for another declared field fails with MissingKey,   *)
(* and (2) when several fields mismatch, the InvalidType raised is that of *)
(* the first mismatching field in declaration order; a nested record field *)
(* mismatches when a value inside its document does.                       *)
(***************************************************************************)
Mismatches(_type, value) ==
    IF _type.k = "cls"
    THEN value.t = "map" /\ load_into_recurse(_type.c, value, EmptyDict).kind = "InvalidType"
    ELSE _type.k \in {"int", "str"} /\ value.t \in {"int", "str"} /\ ~check_type(value, _type)

RequiredMissing ==
    {i \in DOMAIN Annotations :
        /\ Annotations[i][1] \notin DOMAIN Converted
        /\ ~HasClassAttr(call.target.c, Annotations[i][1])
        /\ is_optional(Annotations[i][2]) # Ok(TRUE)}

WronglyTyped ==
    {i \in DOMAIN Annotations :
        /\ Annotations[i][1] \in DOMAIN Converted
        /\ Mismatches(Annotations[i][2], Converted[Annotations[i][1]])}

\* the InvalidType of field i: that of its nested load for a record field
InvalidTypeOf(i) ==
    IF Annotations[i][2].k = "cls"
    THEN load_into_recurse(Annotations[i][2].c, Converted[Annotations[i][1]], EmptyDict)
    ELSE ConfigErrorInvalidType(Annotations[i][1], Converted[Annotations[i][1]],
                                Annotations[i][2])

C9_ErrorOrdering ==
    (Scoped /\ CtorOk) =>
        /\ (RequiredMissing # {} /\ WronglyTyped # {}) => result.kind = "MissingKey"
        /\ (Cardinality(WronglyTyped) >= 2 /\ result.kind = "InvalidType")
               => result = InvalidTypeOf(Least(WronglyTyped))

(***************************************************************************)
(* C9, amended.  Within one record level the fields are resolved in        *)
(* declaration order and validated only after all of them are resolved: a  *)
(* load fails with the failure of the first field whose resolution fails   *)
(* (MissingKey of that field, or whatever the nested load of its value     *)
(* raises, an InvalidType inside the nested record included); when every   *)
(* resolution succeeds, it fails with InvalidType naming the first field   *)
(* in declaration order whose resolved value mismatches.                   *)
(***************************************************************************)
Failing == {i \in DOMAIN Annotations : Resolution(i).kind # "ok"}
Mismatching ==
    {i \in DOMAIN Annotations :
        Resolution(i).kind = "ok" /\ ~check_type(Resolution(i).val, Annotations[i][2])}

C9_OrderingWithinOneLevel ==
    (Scoped /\ CtorOk) =>
        /\ Failing # {} => result = Resolution(Least(Failing))
        /\ (Failing = {} /\ Mismatching # {})
               => result = ConfigErrorInvalidType(
                               Annotations[Least(Mismatching)][1],
                               Resolution(Least(Mismatching)).val,
                               Annotations[Least(Mismatching)][2])

\* a load whose data holds a wrongly typed value for one field and lacks a
\* later required field has failed with MissingKey of the latter
C9_Witness ==
    /\ Scoped
    /\ CtorOk
    /\ result.kind = "MissingKey"
    /\ \E i \in RequiredMissing, j \in Mismatching :
           /\ j < i
           /\ result.key = Annotations[i][1]
           /\ result.cls = call.target.c

====
